---- MODULE Spec2Model ----
(***************************************************************************)
(* A model of geojson/geometry.py: the coordinate normalizer               *)
(* (Geometry.clean_coordinates), the per-kind validators (check_point,     *)
(* check_line_string, check_polygon and the errors() methods), Geometry    *)
(* construction and GeometryCollection aggregation.                        *)
(*                                                                         *)
(* Python values are records with the same five fields:                    *)
(*   t   the type: "int" "float" "decimal" "bool" "str" "none" "list"      *)
(*       "tuple" "geom" (a reference to a Geometry object) "crs"           *)
(*   n   a number's value (True is 1), or the index in geoms of the object *)
(*       a "geom" value refers to                                          *)
(*   m   a string's text; its characters are its one-character substrings  *)
(*   id  a list object's identity: <<0>> for a list the caller built,      *)
(*       <<g>> \o path for the list built at that path by the construction *)
(*       of geoms[g], <<>> for a list not stored anywhere                  *)
(*   s   the elements of a list or tuple                                   *)
(***************************************************************************)
EXTENDS Integers, Sequences, FiniteSets, TLC

VARIABLES geoms, colls, call, result

vars == <<geoms, colls, call, result>>

(* ------------------------------ bounds -------------------------------- *)

MaxPosLen == 4
MaxLineLen == 3
MaxRingLen == 4
MaxRings == 2
MaxGeoms == 2
MaxMembers == 2

(* --------------------------- Python values ---------------------------- *)

Val(t, n, m, id, s) == [t |-> t, n |-> n, m |-> m, id |-> id, s |-> s]

IntV(n) == Val("int", n, "", <<>>, <<>>)
FloatV(n) == Val("float", n, "", <<>>, <<>>)
DecimalV(n) == Val("decimal", n, "", <<>>, <<>>)
BoolV(n) == Val("bool", n, "", <<>>, <<>>)
Str(m) == Val("str", 0, m, <<>>, <<>>)
NoneV == Val("none", 0, "", <<>>, <<>>)
List(id, s) == Val("list", 0, "", id, s)
Tuple(s) == Val("tuple", 0, "", <<>>, s)
GeomRef(g) == Val("geom", g, "", <<>>, <<>>)
CrsV == Val("crs", 0, "", <<>>, <<>>)

Caller == <<0>>
Fresh == <<>>
L(s) == List(Caller, s)

(* What a call did: it returned val, or raised exc about val. *)
Return(v) == [exc |-> "", val |-> v]
Raise(e, v) == [exc |-> e, val |-> v]

First(S) == CHOOSE i \in S : \A j \in S : i <= j

(* isinstance(v, _JSON_compliant_types); bool is a subclass of int *)
IsJSONNumber(v) == v.t \in {"int", "float", "decimal", "bool"}

IsList(v) == v.t = "list"
IsSeq(v) == v.t \in {"list", "tuple"}

(* bool(v) *)
Truthy(v) ==
    CASE v.t \in {"int", "float", "decimal", "bool"} -> v.n # 0
      [] v.t = "str" -> v.m # ""
      [] v.t \in {"list", "tuple"} -> v.s # <<>>
      [] v.t = "none" -> FALSE
      [] OTHER -> TRUE

(* The keys of the mapping a Geometry object is. *)
DictKeys(v) ==
    <<Str("type"), Str("coordinates")>>
        \o (IF geoms[v.n].crs = NoneV THEN <<>> ELSE <<Str("crs")>>)

(* iter(v) is defined *)
Iterable(v) == v.t \in {"list", "tuple", "str", "geom"}

(* list(iter(v)) *)
Iter(v) ==
    CASE v.t \in {"list", "tuple"} -> v.s
      [] v.t = "str" -> [i \in 1..Len(v.m) |-> Str(SubSeq(v.m, i, i))]
      [] v.t = "geom" -> DictKeys(v)
      [] OTHER -> <<>>

(* len(v) is defined *)
HasLen(v) == v.t \in {"list", "tuple", "str", "geom"}

(* len(v) *)
PyLen(v) == Len(Iter(v))

(* a == b: numbers by value, sequences of one type element by element,     *)
(* mappings by their items *)
RECURSIVE PyEq(_, _)
PyEq(a, b) ==
    CASE IsJSONNumber(a) /\ IsJSONNumber(b) -> a.n = b.n
      [] IsSeq(a) /\ a.t = b.t ->
            /\ Len(a.s) = Len(b.s)
            /\ \A i \in 1..Len(a.s) : PyEq(a.s[i], b.s[i])
      [] a.t = "str" /\ b.t = "str" -> a.m = b.m
      [] a.t = "none" /\ b.t = "none" -> TRUE
      [] a.t = "geom" /\ b.t = "geom" ->
            /\ geoms[a.n].kind = geoms[b.n].kind
            /\ PyEq(geoms[a.n].coordinates, geoms[b.n].coordinates)
            /\ geoms[a.n].crs = geoms[b.n].crs
      [] a.t = "crs" /\ b.t = "crs" -> TRUE
      [] OTHER -> FALSE

(* ----------------------------- validators ----------------------------- *)

MsgNotList == Str("each position must be a list")
MsgArity == Str("a position must have exactly 2 or 3 values")
MsgNotNumber == Str("each value in a position must be a number")
MsgLineNotList == Str("each line must be a list of positions")
MsgTwoOrMore ==
    Str("the \"coordinates\" member must be an array of two or more positions")
MsgRingLength == Str("LinearRing must contain with 4 or more positions")
MsgRingClosure ==
    Str("The first and last positions in LinearRing must be equivalent")

check_point(coord) ==
    IF ~IsList(coord) THEN Return(MsgNotList)
    ELSE IF Len(coord.s) \notin {2, 3} THEN Return(MsgArity)
    ELSE IF \E i \in 1..Len(coord.s) : ~IsJSONNumber(coord.s[i])
         THEN Return(MsgNotNumber)
    ELSE Return(NoneV)

check_line_string_last(coord) ==
    IF ~IsList(coord) THEN Return(MsgLineNotList)
    ELSE IF Len(coord.s) < 2 THEN Return(MsgTwoOrMore)
    ELSE LET bad == {i \in 1..Len(coord.s) : Truthy(check_point(coord.s[i]).val)}
         IN  IF bad = {} THEN Return(NoneV)
             ELSE check_point(coord.s[CHOOSE i \in bad : \A j \in bad : j <= i])

check_line_string(coord) ==
    IF ~IsList(coord) THEN Return(MsgLineNotList)
    ELSE IF Len(coord.s) < 2 THEN Return(MsgTwoOrMore)
    ELSE LET bad == {i \in 1..Len(coord.s) : Truthy(check_point(coord.s[i]).val)}
         IN  IF bad = {} THEN Return(NoneV)
             ELSE check_point(coord.s[First(bad)])

check_polygon_closure_first(coord) ==
    IF ~Iterable(coord) THEN Raise("TypeError", coord)
    ELSE LET elems == Iter(coord)
             open == {i \in 1..Len(elems) : HasLen(elems[i]) /\ PyLen(elems[i]) >= 1
                        /\ ~PyEq(Iter(elems[i])[1], Iter(elems[i])[PyLen(elems[i])])}
             stop == {i \in 1..Len(elems) : ~HasLen(elems[i]) \/ PyLen(elems[i]) < 4}
         IN  IF open # {} THEN Return(MsgRingClosure)
             ELSE IF stop # {}
                  THEN (IF ~HasLen(elems[First(stop)])
                        THEN Raise("TypeError", elems[First(stop)])
                        ELSE Return(MsgRingLength))
             ELSE Return(NoneV)

check_polygon_three(coord) ==
    IF ~Iterable(coord) THEN Raise("TypeError", coord)
    ELSE LET elems == Iter(coord)
             stop == {i \in 1..Len(elems) : ~HasLen(elems[i]) \/ PyLen(elems[i]) < 3}
             open == {i \in 1..Len(elems) :
                        ~PyEq(Iter(elems[i])[1], Iter(elems[i])[PyLen(elems[i])])}
         IN  IF stop # {}
             THEN (IF ~HasLen(elems[First(stop)])
                   THEN Raise("TypeError", elems[First(stop)])
                   ELSE Return(MsgRingLength))
             ELSE IF open # {} THEN Return(MsgRingClosure)
             ELSE Return(NoneV)

(* all() stops at the first element that is False or whose test raises:    *)
(* len() of a number or None raises TypeError.  Once every element has 4   *)
(* or more items, elem[0] and elem[-1] exist.                              *)
check_polygon(coord) ==
    IF ~Iterable(coord) THEN Raise("TypeError", coord)
    ELSE LET elems == Iter(coord)
             stop == {i \in 1..Len(elems) : ~HasLen(elems[i]) \/ PyLen(elems[i]) < 4}
             open == {i \in 1..Len(elems) :
                        ~PyEq(Iter(elems[i])[1], Iter(elems[i])[PyLen(elems[i])])}
         IN  IF stop # {}
             THEN (IF ~HasLen(elems[First(stop)])
                   THEN Raise("TypeError", elems[First(stop)])
                   ELSE Return(MsgRingLength))
             ELSE IF open # {} THEN Return(MsgRingClosure)
             ELSE Return(NoneV)

(* ----------------------------- normalizer ----------------------------- *)

(* isinstance(v, Geometry): every object of geoms is of a Geometry subclass *)
IsGeometry(v) == v.t = "geom"

(* isinstance(v, Point) *)
IsPoint(v) == v.t = "geom" /\ geoms[v.n].kind = "Point"

RECURSIVE clean_coordinates(_)

(* The elements are taken in order and the first one that raises ends the  *)
(* call; the embedded Geometry's own list is appended, not a copy of it.   *)
clean_coordinates(coords) ==
    IF ~Iterable(coords) THEN Raise("TypeError", coords)
    ELSE LET items == Iter(coords)
             sub == [i \in 1..Len(items) |->
                       IF IsSeq(items[i]) THEN clean_coordinates(items[i])
                       ELSE IF IsGeometry(items[i])
                            THEN Return(geoms[items[i].n].coordinates)
                       ELSE IF IsJSONNumber(items[i]) THEN Return(items[i])
                       ELSE Raise("ValueError", items[i])]
             bad == {i \in 1..Len(items) : sub[i].exc # ""}
             pre == IF IsPoint(coords) THEN <<coords>> ELSE <<>>
         IN  IF bad # {} THEN sub[First(bad)]
             ELSE Return(List(Fresh, pre \o [i \in 1..Len(items) |-> sub[i].val]))

(* The list objects a construction builds get their identities: the list   *)
(* at path p of the tree built for geoms[g] is <<g>> \o p.  A list that    *)
(* already has an identity is an existing object and keeps it.             *)
RECURSIVE Alloc(_, _)
Alloc(v, id) ==
    IF v.t = "list" /\ v.id = Fresh
    THEN List(id, [i \in 1..Len(v.s) |-> Alloc(v.s[i], Append(id, i))])
    ELSE v

(* --------------------------- errors() methods ------------------------- *)

(* The helper of the base object: the per-element check is applied along  *)
(* the list and the scan ends at the first element whose check reports;    *)
(* checks is the per-element check's outcome for each element, in order.   *)
check_list_errors(checks) ==
    LET bad == {i \in 1..Len(checks) : checks[i].exc # "" \/ Truthy(checks[i].val)}
    IN  IF bad = {} THEN Return(NoneV) ELSE checks[First(bad)]

Kinds ==
    {"Point", "MultiPoint", "LineString", "MultiLineString", "Polygon",
     "MultiPolygon"}

errors(self) ==
    LET elems == self.coordinates.s
    IN  CASE self.kind = "Point" -> check_point(self.coordinates)
          [] self.kind = "MultiPoint" ->
                check_list_errors([i \in 1..Len(elems) |-> check_point(elems[i])])
          [] self.kind = "LineString" -> check_line_string(self.coordinates)
          [] self.kind = "MultiLineString" ->
                check_list_errors([i \in 1..Len(elems) |-> check_line_string(elems[i])])
          [] self.kind = "Polygon" -> check_polygon(self.coordinates)
          [] self.kind = "MultiPolygon" ->
                check_list_errors([i \in 1..Len(elems) |-> check_polygon(elems[i])])

(* GeometryCollection.errors: every member's errors() is called, in order; *)
(* a member's exception ends the call; the results that are true are kept. *)
RECURSIVE Keep(_)
Keep(s) ==
    IF s = <<>> THEN <<>>
    ELSE (IF Truthy(Head(s)) THEN <<Head(s)>> ELSE <<>>) \o Keep(Tail(s))

collection_errors(self) ==
    LET gs == self.geometries.s
        r == [i \in 1..Len(gs) |-> errors(geoms[gs[i].n])]
        bad == {i \in 1..Len(gs) : r[i].exc # ""}
    IN  IF bad # {} THEN r[First(bad)]
        ELSE Return(List(Fresh, Keep([i \in 1..Len(gs) |-> r[i].val])))

(* ------------------------------- inputs ------------------------------- *)

SeqsUpTo(S, n) == UNION {[1..k -> S] : k \in 0..n}

P00 == L(<<IntV(0), IntV(0)>>)
P10 == L(<<IntV(1), IntV(0)>>)
P11 == L(<<IntV(1), IntV(1)>>)
P00f == L(<<FloatV(0), FloatV(0)>>)

Scalars ==
    {IntV(0), IntV(1), FloatV(1), DecimalV(2), BoolV(1), Str("a"), NoneV}

(* what a caller may hand to check_point *)
PointInputs ==
    Scalars \cup {Str("ab")}
        \cup {L(s) : s \in SeqsUpTo(Scalars, MaxPosLen)}
        \cup {Tuple(s) : s \in SeqsUpTo({IntV(0), IntV(1)}, MaxPosLen)}

(* what a caller may hand to check_line_string *)
LineElems ==
    {P00, P11, L(<<IntV(1)>>), L(<<IntV(1), Str("a")>>), L(<<>>),
     Tuple(<<IntV(0), IntV(0)>>), IntV(1)}

LineInputs ==
    {L(s) : s \in SeqsUpTo(LineElems, MaxLineLen)}
        \cup {Tuple(<<P00, P11>>)}

(* what a caller may hand to check_polygon: one ring of any make, or       *)
(* several rings out of a few *)
Rings == {L(s) : s \in SeqsUpTo({P00, P10, P11, P00f}, MaxRingLen)}

RingClosed == L(<<P00, P10, P11, P00>>)
RingOpen == L(<<P00, P10, P11, P10>>)
RingShort == L(<<P00, P10, P11>>)
RingTwo == L(<<P00, P10>>)
RingSamples == {RingClosed, RingOpen, RingShort, L(<<>>)}

PolygonInputs ==
    {L(<<r>>) : r \in Rings}
        \cup {L(s) : s \in SeqsUpTo(RingSamples, MaxRings)}

CheckInputs == PointInputs \cup LineInputs \cup PolygonInputs

(* what a caller may hand to a constructor or to clean_coordinates, given  *)
(* the Geometry objects that exist *)
Refs == {GeomRef(g) : g \in 1..Len(geoms)}

Embedding == Refs \cup {L(<<r>>) : r \in Refs} \cup {L(<<P00, r>>) : r \in Refs}

RawInputs ==
    {NoneV, L(<<IntV(1), IntV(2)>>), L(<<IntV(1)>>), L(<<IntV(1), Str("a")>>),
     L(<<RingClosed>>)}
        \cup Refs \cup {L(<<r>>) : r \in Refs}

CleanInputs ==
    {NoneV, IntV(1), Str("ab"), Tuple(<<IntV(1), IntV(2)>>),
     L(<<P00, Tuple(<<IntV(1), NoneV>>)>>), L(<<P00, Tuple(<<P11, P10>>)>>),
     L(<<L(<<Str("a"), NoneV>>)>>), L(<<L(<<>>)>>), L(<<GeomRef(1), L(<<GeomRef(2)>>)>>)}
        \cup PointInputs \cup Embedding

(* ------------------------------- actions ------------------------------ *)

NoCall == [op |-> "", kind |-> "", arg |-> NoneV, crs |-> NoneV, validate |-> FALSE]

Call(op, kind, arg, crs, validate) ==
    [op |-> op, kind |-> kind, arg |-> arg, crs |-> crs, validate |-> validate]

Init ==
    /\ geoms = <<>>
    /\ colls = <<>>
    /\ call = NoCall
    /\ result = Return(NoneV)

(* Geometry.__init__ of the class kind *)
GeometryInit(kind, coordinates, crs, validate) ==
    /\ Len(geoms) < MaxGeoms
    /\ call' = Call("__init__", kind, coordinates, crs, validate)
    /\ LET arg == IF Truthy(coordinates) THEN coordinates ELSE L(<<>>)
           c == clean_coordinates(arg)
           g == Len(geoms) + 1
           self == [kind |-> kind, coordinates |-> Alloc(c.val, <<g>>), crs |-> NoneV]
           e == errors(self)
       IN  IF c.exc # ""
           THEN result' = c /\ UNCHANGED geoms
           ELSE IF validate /\ e.exc # ""
           THEN result' = e /\ UNCHANGED geoms
           ELSE IF validate /\ Truthy(e.val)
           THEN result' = Raise("ValueError", e.val) /\ UNCHANGED geoms
           ELSE /\ geoms' = Append(geoms,
                        [self EXCEPT !.crs = IF Truthy(crs) THEN crs ELSE NoneV])
                /\ result' = Return(GeomRef(g))
    /\ UNCHANGED colls

(* geoms[g].errors() *)
Errors(g) ==
    /\ call' = Call("errors", geoms[g].kind, GeomRef(g), NoneV, FALSE)
    /\ result' = errors(geoms[g])
    /\ UNCHANGED <<geoms, colls>>

(* GeometryCollection.__init__, of the collection built once the           *)
(* geometries are *)
GeometryCollectionInit(geometries) ==
    /\ colls = <<>>
    /\ Len(geoms) = MaxGeoms
    /\ call' = Call("GeometryCollection", "", geometries, NoneV, FALSE)
    /\ colls' = Append(colls,
            [geometries |-> IF Truthy(geometries) THEN geometries ELSE L(<<>>)])
    /\ result' = Return(NoneV)
    /\ UNCHANGED geoms

(* colls[c].errors() *)
GeometryCollectionErrors(c) ==
    /\ call' = Call("collection_errors", "", colls[c].geometries, NoneV, FALSE)
    /\ result' = collection_errors(colls[c])
    /\ UNCHANGED <<geoms, colls>>

Next ==
    \/ \E kind \in Kinds, coordinates \in RawInputs, crs \in {NoneV, CrsV},
          validate \in BOOLEAN :
            GeometryInit(kind, coordinates, crs, validate)
    \/ \E g \in 1..Len(geoms) : Errors(g)
    \/ \E s \in SeqsUpTo(Refs, MaxMembers) : GeometryCollectionInit(L(s))
    \/ \E c \in 1..Len(colls) : GeometryCollectionErrors(c)

Spec == Init /\ [][Next]_vars

(* The functions applied to one input each, two Geometry objects existing:  *)
(* Point([1, 2]) and LineString([[0, 0], [1, 1]]).                          *)
Built(kind, coordinates, g) ==
    [kind |-> kind, crs |-> NoneV,
     coordinates |-> Alloc(clean_coordinates(coordinates).val, <<g>>)]

InitCheck ==
    /\ geoms = <<Built("Point", L(<<IntV(1), IntV(2)>>), 1),
                 Built("LineString", L(<<P00, P11>>), 2)>>
    /\ colls = <<>>
    /\ call = NoCall
    /\ result = Return(NoneV)

CheckPoint(coord) ==
    /\ call.op = ""
    /\ call' = Call("check_point", "", coord, NoneV, FALSE)
    /\ result' = check_point(coord)
    /\ UNCHANGED <<geoms, colls>>

CheckLineString(coord) ==
    /\ call.op = ""
    /\ call' = Call("check_line_string", "", coord, NoneV, FALSE)
    /\ result' = check_line_string(coord)
    /\ UNCHANGED <<geoms, colls>>

CheckPolygon(coord) ==
    /\ call.op = ""
    /\ call' = Call("check_polygon", "", coord, NoneV, FALSE)
    /\ result' = check_polygon(coord)
    /\ UNCHANGED <<geoms, colls>>

(* Geometry.clean_coordinates called on its own *)
CleanCoordinates(coords) ==
    /\ call.op = ""
    /\ call' = Call("clean_coordinates", "", coords, NoneV, FALSE)
    /\ result' = clean_coordinates(coords)
    /\ UNCHANGED <<geoms, colls>>

NextCheck ==
    \/ call.op = "" /\ \E coord \in CheckInputs : CheckPoint(coord)
    \/ call.op = "" /\ \E coord \in CheckInputs : CheckLineString(coord)
    \/ call.op = "" /\ \E coord \in CheckInputs : CheckPolygon(coord)
    \/ call.op = "" /\ \E coords \in CleanInputs : CleanCoordinates(coords)

SpecCheck == InitCheck /\ [][NextCheck]_vars

(* ------------------------------- claims ------------------------------- *)

(* A Number of the data model: an integer, a floating-point number or a    *)
(* decimal; not a string, not a boolean.                                   *)
Number(v) == v.t \in {"int", "float", "decimal"}

(* A position as the data model has it: a list of Numbers. *)
NumberList(v) == IsList(v) /\ \A i \in 1..Len(v.s) : Number(v.s[i])

(* Two positions are equal coordinate by coordinate. *)
SamePosition(p, q) ==
    /\ Len(p.s) = Len(q.s)
    /\ \A i \in 1..Len(p.s) : p.s[i].n = q.s[i].n

(* A list of rings: every ring a list of positions. *)
RingList(v) ==
    /\ IsList(v)
    /\ \A i \in 1..Len(v.s) :
          /\ IsList(v.s[i])
          /\ \A j \in 1..Len(v.s[i].s) : NumberList(v.s[i].s[j])

(* C1: check_point(c) returns no error exactly when c is a list of 2 or 3  *)
(* Numbers, and otherwise the message of the first failing condition in    *)
(* the order: not a list, length not 2 or 3, an element not a Number.      *)
C1_PointCheck ==
    call.op = "check_point" =>
        result = Return(
            IF ~IsList(call.arg) THEN MsgNotList
            ELSE IF Len(call.arg.s) \notin {2, 3} THEN MsgArity
            ELSE IF \E i \in 1..Len(call.arg.s) : ~Number(call.arg.s[i])
                 THEN MsgNotNumber
            ELSE NoneV)

(* C2: for every list of rings, check_polygon returns the length error if  *)
(* any ring has fewer than 4 positions, wherever it is; otherwise the      *)
(* closure error if any ring's first position is not value-equal to its    *)
(* last; otherwise no error.                                               *)
C2_PolygonOrder ==
    (call.op = "check_polygon" /\ RingList(call.arg)) =>
        LET rings == call.arg.s
        IN  result = Return(
                IF \E i \in 1..Len(rings) : Len(rings[i].s) < 4 THEN MsgRingLength
                ELSE IF \E i \in 1..Len(rings) :
                           ~SamePosition(rings[i].s[1], rings[i].s[Len(rings[i].s)])
                     THEN MsgRingClosure
                ELSE NoneV)

(* C2 witness: an unclosed ring of 4 positions followed by a ring of 3     *)
(* positions gives the length error.                                       *)
C2_Witness ==
    /\ call.op = "check_polygon"
    /\ call.arg = L(<<RingOpen, RingShort>>)
    /\ result = Return(MsgRingLength)

(* C3 as stated: the ring [[0,0],[1,0],[1,1],[0,0]] validates, the ring    *)
(* [[0,0],[1,0],[1,1]] gives the closure error, the ring [[0,0],[1,0]] the *)
(* length error.                                                           *)
C3_AsStated ==
    call.op = "check_polygon" =>
        /\ call.arg = L(<<RingClosed>>) => result = Return(NoneV)
        /\ call.arg = L(<<RingShort>>) => result = Return(MsgRingClosure)
        /\ call.arg = L(<<RingTwo>>) => result = Return(MsgRingLength)

(* C3 amended: the ring [[0,0],[1,0],[1,1],[0,0]] validates; the rings     *)
(* [[0,0],[1,0],[1,1]] and [[0,0],[1,0]] both give the length error; the   *)
(* closure error is that of a ring of 4 positions whose last differs from  *)
(* its first, [[0,0],[1,0],[1,1],[1,0]].                                   *)
C3_RingExamples ==
    call.op = "check_polygon" =>
        /\ call.arg = L(<<RingClosed>>) => result = Return(NoneV)
        /\ call.arg = L(<<RingShort>>) => result = Return(MsgRingLength)
        /\ call.arg = L(<<RingTwo>>) => result = Return(MsgRingLength)
        /\ call.arg = L(<<RingOpen>>) => result = Return(MsgRingClosure)

(* C3 witness: the ring without its closing point has been validated. *)
C3_Witness ==
    /\ call.op = "check_polygon"
    /\ call.arg = L(<<RingShort>>)
    /\ result = Return(MsgRingLength)

(* A value the normalizer is to reject: no Number, no list or tuple, no    *)
(* Geometry object.                                                        *)
Rejected(v) == ~Number(v) /\ ~IsSeq(v) /\ ~IsGeometry(v)

(* The elements of a nested list or tuple, at every depth. *)
RECURSIVE Elements(_)
Elements(v) ==
    IF IsSeq(v)
    THEN UNION {{v.s[i]} \cup Elements(v.s[i]) : i \in 1..Len(v.s)}
    ELSE {}

(* C4: clean_coordinates of an input that holds, at some depth, a value    *)
(* that is no Number (booleans and strings are none), no list or tuple and *)
(* no Geometry raises ValueError about such a value of the input; and      *)
(* clean_coordinates([n]) returns [n] for every Number n.                  *)
C4_RejectsNonNumbers ==
    call.op = "clean_coordinates" =>
        /\ (\E v \in Elements(call.arg) : Rejected(v)) =>
              /\ result.exc = "ValueError"
              /\ Rejected(result.val)
              /\ result.val \in Elements(call.arg)
        /\ (IsList(call.arg) /\ Len(call.arg.s) = 1 /\ Number(call.arg.s[1])) =>
              result = Return(List(Fresh, call.arg.s))

(* A canonical coordinate tree: every non-leaf a list, every leaf a Number. *)
RECURSIVE Canonical(_)
Canonical(v) ==
    /\ IsList(v)
    /\ \A i \in 1..Len(v.s) : Number(v.s[i]) \/ Canonical(v.s[i])

(* C5: whenever clean_coordinates returns, every leaf of the tree it       *)
(* returns is a Number and every non-leaf a list.                          *)
C5_LeavesAreNumbers ==
    (call.op = "clean_coordinates" /\ result.exc = "") => Canonical(result.val)

(* C6: errors() of a Geometry of any of the six kinds never raises. *)
C6_ErrorsNeverRaises ==
    call.op = "errors" => result.exc = ""

(* C7: GeometryCollection.errors() returns the non-empty results of its    *)
(* members' errors(), all of them, in member order.                        *)
C7_Aggregate ==
    call.op = "collection_errors" =>
        LET ms == call.arg.s
            r == [i \in 1..Len(ms) |-> errors(geoms[ms[i].n])]
            invalid == {i \in 1..Len(ms) : r[i].exc # "" \/ Truthy(r[i].val)}
        IN  /\ result.exc = ""
            /\ IsList(result.val)
            /\ Len(result.val.s) = Cardinality(invalid)
            /\ \A k \in 1..Len(result.val.s) :
                  \E i \in invalid :
                     /\ Cardinality({j \in invalid : j <= i}) = k
                     /\ result.val.s[k] = r[i].val

(* C8: construction normalizes first and fails when normalization fails;   *)
(* with validate unset it succeeds and keeps the normalized coordinates    *)
(* whatever errors() says; with validate set it raises ValueError exactly  *)
(* when errors() of the normalized coordinates is non-empty and succeeds   *)
(* otherwise.                                                              *)
C8_Construction ==
    call.op = "__init__" =>
        LET c == clean_coordinates(
                    IF Truthy(call.arg) THEN call.arg ELSE L(<<>>))
            new == geoms[Len(geoms)]
            made == /\ result.exc = ""
                    /\ result.val = GeomRef(Len(geoms))
                    /\ new.kind = call.kind
                    /\ PyEq(new.coordinates, c.val)
            e == errors([kind |-> call.kind, coordinates |-> c.val, crs |-> NoneV])
        IN  IF c.exc # "" THEN result = c
            ELSE IF ~call.validate THEN made
            ELSE IF e.exc = "" /\ Truthy(e.val) THEN result.exc = "ValueError"
            ELSE made

(* Every list of the tree v is the one built at path id by its owner. *)
RECURSIVE Owned(_, _)
Owned(v, id) ==
    IsList(v) =>
        /\ v.id = id
        /\ \A i \in 1..Len(v.s) : Owned(v.s[i], Append(id, i))

(* C10: no list of a Geometry's stored coordinate tree is a list of        *)
(* another Geometry's tree or of the caller's input: every list of the     *)
(* tree of geoms[g] was built by the construction of geoms[g].             *)
C10_ExclusiveOwnership ==
    \A g \in 1..Len(geoms) : Owned(geoms[g].coordinates, <<g>>)

(* C9: check_line_string(c) returns the not-a-list message if c is no      *)
(* list; else the two-or-more message if c has fewer than 2 elements; else *)
(* the check_point message of the first element check_point rejects; else  *)
(* no error.  [[0,0]] gives the two-or-more message, [[0,0],[1,1]] none.   *)
C9_LineStringCheck ==
    call.op = "check_line_string" =>
        LET c == call.arg
            rejected(i) == check_point(c.s[i]).val # NoneV
        IN  /\ ~IsList(c) => result = Return(MsgLineNotList)
            /\ (IsList(c) /\ Len(c.s) < 2) => result = Return(MsgTwoOrMore)
            /\ (IsList(c) /\ Len(c.s) >= 2) =>
                  /\ result.val # MsgTwoOrMore
                  /\ \A i \in 1..Len(c.s) :
                        (rejected(i) /\ \A j \in 1..(i - 1) : ~rejected(j)) =>
                            result = check_point(c.s[i])
                  /\ (\A i \in 1..Len(c.s) : ~rejected(i)) => result = Return(NoneV)
            /\ c = L(<<P00>>) => result = Return(MsgTwoOrMore)
            /\ c = L(<<P00, P11>>) => result = Return(NoneV)

(* C9 witness: a line whose first position is good and whose second and    *)
(* third are bad in different ways reports the second.                     *)
C9_Witness ==
    /\ call.op = "check_line_string"
    /\ call.arg = L(<<P00, L(<<IntV(1)>>), L(<<IntV(1), Str("a")>>)>>)
    /\ result = Return(MsgArity)

====
